---- MODULE Spec2Model ----
(***************************************************************************)
(* shp: a two-phase container launcher (src/shp.go).                       *)
(*                                                                         *)
(* Process 0 is the process the user starts; process 1 is the process that *)
(* run() spawns by re-executing /proc/self/exe inside new namespaces.      *)
(* Strings are sequences of one-character strings so that path handling    *)
(* (strings.Split, filepath.Join, filepath.Clean, filepath.Abs) is         *)
(* computed rather than assumed.                                           *)
(***************************************************************************)
EXTENDS Integers, Sequences, FiniteSets, TLC

VARIABLES
    pc,          \* pc[p]: position of process p in main/run/child
    argv,        \* argv[p]: os.Args[1:] of process p
    exitc,       \* exitc[p]: exit status of process p (-1 while it runs)
    namespaces,  \* namespaces created by the spawn request of run()
    binPath,     \* child(): result of getCmdPath
    cmd,         \* child(): the exec.Cmd built from binPath and cmdArgs[1:]
    pivotErr,    \* child(): err returned by PivotRootIsolator.Isolate
    strategyUsed,\* the isolator whose Isolate returned nil
    holdingDir,  \* <rootfs>/.old_root exists
    rootSwapped, \* pivot_root has succeeded in this process
    oldRootAttached, \* the previous root is still mounted on /.old_root
    chrooted,    \* chroot has succeeded in this process
    cwd,         \* which call last set the working directory
    procMounted, \* procfs is mounted on proc
    tstate,      \* target command: "none", "running", "exited", "killed"
    texit,       \* exit status of the target command (-1 while none)
    calls,       \* system calls attempted so far, in order
    out          \* messages printed to standard output, in order

vars == <<pc, argv, exitc, namespaces, binPath, cmd, pivotErr, strategyUsed,
          holdingDir, rootSwapped, oldRootAttached, chrooted, cwd,
          procMounted, tstate, texit, calls, out>>

isoVars == <<holdingDir, rootSwapped, oldRootAttached, chrooted, cwd,
             procMounted>>

-----------------------------------------------------------------------------
(* Bounds of the model *)

MaxLen == 2
MaxArgs == 3
MaxCode == 2

-----------------------------------------------------------------------------
(* Strings *)

Procs == {0, 1}

oldRootDir == <<".", "o", "l", "d", "_", "r", "o", "o", "t">>
procFS == <<"p", "r", "o", "c">>
RunWord == <<"r", "u", "n">>
ChildWord == <<"c", "h", "i", "l", "d">>
OtherWord == <<"x">>
BinDir == <<"/", "b", "i", "n", "/">>
Slash == <<"/">>
Getwd == <<"/", "w">>

CmdChars == {"a", ".", "/"}

RECURSIVE StrsOfLen(_)
StrsOfLen(n) ==
    IF n = 0 THEN {<<>>}
    ELSE {Append(s, c) : s \in StrsOfLen(n - 1), c \in CmdChars}

StrsUpTo(n) == UNION {StrsOfLen(k) : k \in 0..n}

-----------------------------------------------------------------------------
(* Library functions used by the program: strings.Split, filepath.Clean,   *)
(* filepath.Join, filepath.Abs (Unix semantics)                            *)

\* strings.Split(s, sep) for a one-character separator
RECURSIVE Split(_, _)
Split(s, sep) ==
    IF \A i \in 1..Len(s) : s[i] # sep THEN <<s>>
    ELSE LET k == CHOOSE i \in 1..Len(s) :
                      s[i] = sep /\ \A j \in 1..(i - 1) : s[j] # sep
         IN <<SubSeq(s, 1, k - 1)>> \o Split(SubSeq(s, k + 1, Len(s)), sep)

\* strings.Join(elems, sep)
RECURSIVE StringsJoin(_, _)
StringsJoin(elems, sep) ==
    IF elems = <<>> THEN <<>>
    ELSE IF Len(elems) = 1 THEN elems[1]
    ELSE elems[1] \o sep \o StringsJoin(Tail(elems), sep)

\* the component stack filepath.Clean builds: "" and "." are dropped, ".."
\* removes the previous component, is dropped at the root of a rooted path
\* and is kept at the front of a relative path
RECURSIVE CleanStack(_, _, _)
CleanStack(comps, rooted, st) ==
    IF comps = <<>> THEN st
    ELSE LET c == Head(comps)
             rest == Tail(comps)
         IN IF c = <<>> \/ c = <<".">> THEN CleanStack(rest, rooted, st)
            ELSE IF c = <<".", ".">>
                 THEN IF st # <<>> /\ st[Len(st)] # <<".", ".">>
                      THEN CleanStack(rest, rooted, SubSeq(st, 1, Len(st) - 1))
                      ELSE IF rooted THEN CleanStack(rest, rooted, st)
                      ELSE CleanStack(rest, rooted, Append(st, c))
            ELSE CleanStack(rest, rooted, Append(st, c))

IsAbs(path) == path # <<>> /\ path[1] = "/"

\* filepath.Clean of a path that has been computed
CleanPath(path) ==
    IF path = <<>> THEN <<".">>
    ELSE LET st == CleanStack(Split(path, "/"), IsAbs(path), <<>>)
         IN IF IsAbs(path) THEN Slash \o StringsJoin(st, Slash)
            ELSE IF st = <<>> THEN <<".">>
            ELSE StringsJoin(st, Slash)

\* filepath.Clean: the argument is computed once, then cleaned
Clean(path) == CHOOSE c \in {CleanPath(x) : x \in {path}} : TRUE

\* filepath.Join of two elements: empty elements are ignored, the rest is
\* joined with "/" and cleaned
Join(a, b) ==
    LET elems == SelectSeq(<<a, b>>, LAMBDA e : e # <<>>)
    IN IF elems = <<>> THEN <<>> ELSE Clean(StringsJoin(elems, Slash))

\* filepath.Abs when os.Getwd succeeds
Abs(path) == IF IsAbs(path) THEN Clean(path) ELSE Join(Getwd, path)

\* getCmdPath with the test on the number of splits off by one
getCmdPath_SplitsOffByOne(cmdPath) ==
    IF Len(Split(cmdPath, "/")) > 2 THEN cmdPath ELSE Join(BinDir, cmdPath)

\* getCmdPath (shp.go 194-202): a command with a separator is returned as
\* it is, a bare name is joined to /bin/
getCmdPath(cmdPath) ==
    IF Len(Split(cmdPath, "/")) > 1 THEN cmdPath ELSE Join(BinDir, cmdPath)

\* the message getCmdPath prints
getCmdPathMsg(cmdPath) ==
    IF Len(Split(cmdPath, "/")) > 1 THEN "WARNING absolute path" ELSE "INFO bin"

-----------------------------------------------------------------------------
(* Inputs *)

RootPaths == {<<>>, <<"a">>, <<"/", "a">>}
CmdNames == StrsUpTo(MaxLen)
ExtraArgs == {<<"a">>}

\* the argument lists that may follow the subcommand: rootfs, command, options
ArgLists ==
    {<<>>}
    \cup {<<r>> : r \in RootPaths}
    \cup {<<r, c>> \o x : r \in RootPaths, c \in CmdNames,
                          x \in UNION {[1..n -> ExtraArgs] : n \in 0..(MaxArgs - 2)}}

\* os.Args[1:] of the process the user starts
Invocations ==
    {<<>>} \cup {<<w>> \o a : w \in {RunWord, ChildWord, OtherWord}, a \in ArgLists}

-----------------------------------------------------------------------------
(* Constants of the program *)

ExitSuccess == 0
ExitFailure == 1
nil == "nil"
Cloneflags == {"CLONE_NEWUTS", "CLONE_NEWPID", "CLONE_NEWNS"}
SelfExe == <<"/", "p", "r", "o", "c", "/", "s", "e", "l", "f", "/", "e", "x", "e">>
Terminated == {"exited", "aborted"}

Call(op, path, ok) == [op |-> op, path |-> path, ok |-> ok]
Msg(m, d) == [msg |-> m, detail |-> d]
Usage == Msg("usage", nil)

\* os.Args[2:], and child()'s rootfs and cmdArgs
args(p) == Tail(argv[p])
rootfs(p) == args(p)[1]
cmdArgs(p) == Tail(args(p))

Goto(p, l) == pc' = [pc EXCEPT ![p] = l] /\ exitc' = exitc
Exit(p, c) == pc' = [pc EXCEPT ![p] = "exited"] /\ exitc' = [exitc EXCEPT ![p] = c]

\* handle that prints nothing and never exits
handle_Ignore(p, err, cont) == cont

\* handle(err): print the error and os.Exit(1), or continue with cont
handle(p, err, cont) ==
    IF err # nil
    THEN out' = Append(out, Msg("error", err)) /\ Exit(p, ExitFailure)
    ELSE cont

-----------------------------------------------------------------------------
(* Initial state: process 0 has been started with some command line *)

Init ==
    /\ pc = [p \in Procs |-> IF p = 0 THEN "main" ELSE "idle"]
    /\ \E a \in Invocations : argv = [p \in Procs |-> IF p = 0 THEN a ELSE <<>>]
    /\ exitc = [p \in Procs |-> -1]
    /\ namespaces = {}
    /\ binPath = <<>>
    /\ cmd = [Path |-> <<>>, Args |-> <<>>]
    /\ pivotErr = nil
    /\ strategyUsed = "none"
    /\ holdingDir = FALSE
    /\ rootSwapped = FALSE
    /\ oldRootAttached = FALSE
    /\ chrooted = FALSE
    /\ cwd = "initial"
    /\ procMounted = FALSE
    /\ tstate = "none"
    /\ texit = -1
    /\ calls = <<>>
    /\ out = <<>>

-----------------------------------------------------------------------------
(* main *)

\* main(): fewer than two os.Args or an unknown subcommand prints the usage
\* and returns; "run" and "child" dispatch
MainUsage(p) ==
    /\ pc[p] = "main"
    /\ \/ Len(argv[p]) < 1
       \/ Len(argv[p]) >= 1 /\ argv[p][1] \notin {RunWord, ChildWord}
    /\ out' = Append(out, Usage)
    /\ Exit(p, ExitSuccess)
    /\ UNCHANGED <<argv, namespaces, binPath, cmd, pivotErr, strategyUsed, isoVars,
                   tstate, texit, calls>>

MainDispatch(p) ==
    /\ pc[p] = "main"
    /\ Len(argv[p]) >= 1
    /\ argv[p][1] \in {RunWord, ChildWord}
    /\ Goto(p, IF argv[p][1] = RunWord THEN "run" ELSE "child")
    /\ UNCHANGED <<argv, namespaces, binPath, cmd, pivotErr, strategyUsed, isoVars,
                   tstate, texit, calls, out>>

-----------------------------------------------------------------------------
(* run: the Launcher *)

\* run() with an argument check that lets a single argument through
RunCheck_OneArg(p) ==
    /\ pc[p] = "run"
    /\ IF Len(args(p)) < 1
       THEN out' = Append(out, Usage) /\ Exit(p, ExitFailure)
       ELSE out' = out /\ Goto(p, "spawn")
    /\ UNCHANGED <<argv, namespaces, binPath, cmd, pivotErr, strategyUsed, isoVars,
                   tstate, texit, calls>>

\* run(): the argument check
RunCheck(p) ==
    /\ pc[p] = "run"
    /\ IF Len(args(p)) < 2
       THEN out' = Append(out, Usage) /\ Exit(p, ExitFailure)
       ELSE out' = out /\ Goto(p, "spawn")
    /\ UNCHANGED <<argv, namespaces, binPath, cmd, pivotErr, strategyUsed, isoVars,
                   tstate, texit, calls>>

\* run() building the argument list with "child" appended instead of prepended
RunSpawn_ChildLast(p) ==
    /\ pc[p] = "spawn"
    /\ p = 0
    /\ \E ok \in BOOLEAN :
        /\ calls' = Append(calls, Call("clone", SelfExe, ok))
        /\ handle(p, IF ok THEN nil ELSE "fork/exec failed",
                  /\ pc' = [pc EXCEPT ![p] = "wait", ![1] = "main"]
                  /\ exitc' = exitc
                  /\ out' = out)
        /\ namespaces' = IF ok THEN Cloneflags ELSE namespaces
        /\ argv' = IF ok THEN [argv EXCEPT ![1] = args(p) \o <<ChildWord>>]
                         ELSE argv
    /\ UNCHANGED <<binPath, cmd, pivotErr, strategyUsed, isoVars, tstate, texit>>

\* run() trying the spawn again when it fails
RunSpawn_Retry(p) ==
    /\ pc[p] = "spawn"
    /\ p = 0
    /\ \E ok \in BOOLEAN :
        /\ calls' = Append(calls, Call("clone", SelfExe, ok))
        /\ pc' = IF ok THEN [pc EXCEPT ![p] = "wait", ![1] = "main"] ELSE pc
        /\ namespaces' = IF ok THEN Cloneflags ELSE namespaces
        /\ argv' = IF ok THEN [argv EXCEPT ![1] = <<ChildWord>> \o args(p)]
                         ELSE argv
    /\ Len(calls) < 3
    /\ UNCHANGED <<exitc, out, binPath, cmd, pivotErr, strategyUsed, isoVars,
                   tstate, texit>>

\* run(): cmd.Run() starts /proc/self/exe child <args> in new namespaces
RunSpawn(p) ==
    /\ pc[p] = "spawn"
    /\ p = 0
    /\ \E ok \in BOOLEAN :
        /\ calls' = Append(calls, Call("clone", SelfExe, ok))
        /\ handle(p, IF ok THEN nil ELSE "fork/exec failed",
                  /\ pc' = [pc EXCEPT ![p] = "wait", ![1] = "main"]
                  /\ exitc' = exitc
                  /\ out' = out)
        /\ namespaces' = IF ok THEN Cloneflags ELSE namespaces
        /\ argv' = IF ok THEN [argv EXCEPT ![1] = <<ChildWord>> \o args(p)]
                         ELSE argv
    /\ UNCHANGED <<binPath, cmd, pivotErr, strategyUsed, isoVars, tstate, texit>>

\* run() using the status of the spawned process without waiting for it
RunWait_NoWait(p) ==
    /\ pc[p] = "wait"
    /\ handle(p, IF exitc[1] = 0 THEN nil ELSE "exit status",
              out' = out /\ Exit(p, ExitSuccess))
    /\ UNCHANGED <<argv, namespaces, binPath, cmd, pivotErr, strategyUsed, isoVars,
                   tstate, texit, calls>>

\* run(): cmd.Run() returns when the spawned process has terminated; a
\* non-zero status is an error for handle, success returns from main
RunWait(p) ==
    /\ pc[p] = "wait"
    /\ pc[1] \in Terminated
    /\ handle(p, IF exitc[1] = 0 THEN nil ELSE "exit status",
              out' = out /\ Exit(p, ExitSuccess))
    /\ UNCHANGED <<argv, namespaces, binPath, cmd, pivotErr, strategyUsed, isoVars,
                   tstate, texit, calls>>

-----------------------------------------------------------------------------
(* child: Init *)

\* child() printing the usage and returning, as main() does, instead of
\* calling os.Exit(1)
ChildCheck_Return(p) ==
    /\ pc[p] = "child"
    /\ IF Len(args(p)) < 2
       THEN out' = Append(out, Usage) /\ Exit(p, ExitSuccess)
       ELSE out' = out /\ Goto(p, "validate")
    /\ UNCHANGED <<argv, namespaces, binPath, cmd, pivotErr, strategyUsed, isoVars,
                   tstate, texit, calls>>

\* child(): the argument check
ChildCheck(p) ==
    /\ pc[p] = "child"
    /\ IF Len(args(p)) < 2
       THEN out' = Append(out, Usage) /\ Exit(p, ExitFailure)
       ELSE out' = out /\ Goto(p, "validate")
    /\ UNCHANGED <<argv, namespaces, binPath, cmd, pivotErr, strategyUsed, isoVars,
                   tstate, texit, calls>>

\* os.Stat of the empty path always fails; any other path may or may not exist
StatOutcomes(path) == IF path = <<>> THEN {FALSE} ELSE BOOLEAN

\* child() calling validateRootfs without passing its result to handle
validateRootfs_Unchecked(p) ==
    /\ pc[p] = "validate"
    /\ \E ok \in StatOutcomes(rootfs(p)) :
        calls' = Append(calls, Call("stat", rootfs(p), ok))
    /\ out' = out
    /\ Goto(p, "resolve")
    /\ UNCHANGED <<argv, namespaces, binPath, cmd, pivotErr, strategyUsed, isoVars,
                   tstate, texit>>

\* child(): handle(validateRootfs(rootfs))
validateRootfs(p) ==
    /\ pc[p] = "validate"
    /\ \E ok \in StatOutcomes(rootfs(p)) :
        /\ calls' = Append(calls, Call("stat", rootfs(p), ok))
        /\ handle(p, IF ok THEN nil ELSE "rootfs path does not exist",
                  out' = out /\ Goto(p, "resolve"))
    /\ UNCHANGED <<argv, namespaces, binPath, cmd, pivotErr, strategyUsed, isoVars,
                   tstate, texit>>

\* child(): binPath := getCmdPath(cmdArgs[0]); cmd := exec.Command(binPath, ...)
ResolveCmd(p) ==
    /\ pc[p] = "resolve"
    /\ binPath' = getCmdPath(cmdArgs(p)[1])
    /\ cmd' = [Path |-> binPath', Args |-> <<binPath'>> \o Tail(cmdArgs(p))]
    /\ out' = Append(out, Msg(getCmdPathMsg(cmdArgs(p)[1]), nil))
    /\ Goto(p, "abs")
    /\ UNCHANGED <<argv, namespaces, pivotErr, strategyUsed, isoVars,
                   tstate, texit, calls>>

-----------------------------------------------------------------------------
(* PivotRootIsolator.Isolate, one action per step *)

absNewRoot(p) == Abs(rootfs(p))
oldRoot(p) == Join(absNewRoot(p), oldRootDir)

\* child() passing the result of the Primary strategy to handle
PivotFail_Fatal(p, err) ==
    /\ pivotErr' = err
    /\ out' = Append(out, Msg("error", err))
    /\ Exit(p, ExitFailure)

\* Isolate returns err to child(), which keeps it in err and falls back
PivotFail(p, err) ==
    /\ pivotErr' = err
    /\ Goto(p, "fallback")
    /\ out' = out

\* filepath.Abs(rootfs): only a relative path needs os.Getwd, which may fail
PivotAbs(p) ==
    /\ pc[p] = "abs"
    /\ \E ok \in (IF IsAbs(rootfs(p)) THEN {TRUE} ELSE BOOLEAN) :
        /\ calls' = IF IsAbs(rootfs(p)) THEN calls
                    ELSE Append(calls, Call("getwd", <<>>, ok))
        /\ IF ok THEN Goto(p, "mkdir") /\ UNCHANGED <<pivotErr, out>>
                 ELSE PivotFail(p, "cannot get absolute path")
    /\ UNCHANGED <<argv, namespaces, binPath, cmd, strategyUsed, isoVars, tstate, texit>>

\* Isolate going on to pivot_root whatever os.MkdirAll returned
PivotMkdir_Unchecked(p) ==
    /\ pc[p] = "mkdir"
    /\ \E ok \in BOOLEAN :
        /\ calls' = Append(calls, Call("mkdir", oldRoot(p), ok))
        /\ holdingDir' = (holdingDir \/ ok)
    /\ Goto(p, "pivot")
    /\ UNCHANGED <<pivotErr, out>>
    /\ UNCHANGED <<argv, namespaces, binPath, cmd, strategyUsed, rootSwapped,
                   oldRootAttached, chrooted, cwd, procMounted, tstate, texit>>

\* os.MkdirAll(oldRoot, 0700)
PivotMkdir(p) ==
    /\ pc[p] = "mkdir"
    /\ \E ok \in BOOLEAN :
        /\ calls' = Append(calls, Call("mkdir", oldRoot(p), ok))
        /\ holdingDir' = (holdingDir \/ ok)
        /\ IF ok THEN Goto(p, "pivot") /\ UNCHANGED <<pivotErr, out>>
                 ELSE PivotFail(p, "cannot create old_root directory")
    /\ UNCHANGED <<argv, namespaces, binPath, cmd, strategyUsed, rootSwapped,
                   oldRootAttached, chrooted, cwd, procMounted, tstate, texit>>

\* Isolate removing the holding directory again when pivot_root fails
PivotSwap_Cleanup(p) ==
    /\ pc[p] = "pivot"
    /\ \E ok \in BOOLEAN :
        /\ calls' = Append(calls, Call("pivot_root", absNewRoot(p), ok))
        /\ rootSwapped' = (rootSwapped \/ ok)
        /\ oldRootAttached' = (oldRootAttached \/ ok)
        /\ holdingDir' = (holdingDir /\ ok)
        /\ IF ok THEN Goto(p, "pchdir") /\ UNCHANGED <<pivotErr, out>>
                 ELSE PivotFail(p, "pivot_root failed")
    /\ UNCHANGED <<argv, namespaces, binPath, cmd, strategyUsed,
                   chrooted, cwd, procMounted, tstate, texit>>

\* syscall.PivotRoot(absNewRoot, oldRoot)
PivotSwap(p) ==
    /\ pc[p] = "pivot"
    /\ \E ok \in BOOLEAN :
        /\ calls' = Append(calls, Call("pivot_root", absNewRoot(p), ok))
        /\ rootSwapped' = (rootSwapped \/ ok)
        /\ oldRootAttached' = (oldRootAttached \/ ok)
        /\ IF ok THEN Goto(p, "pchdir") /\ UNCHANGED <<pivotErr, out>>
                 ELSE PivotFail(p, "pivot_root failed")
    /\ UNCHANGED <<argv, namespaces, binPath, cmd, strategyUsed, holdingDir,
                   chrooted, cwd, procMounted, tstate, texit>>

\* Isolate swapping the root back when the chdir after pivot_root fails
PivotChdir_Undo(p) ==
    /\ pc[p] = "pchdir"
    /\ \E ok \in BOOLEAN :
        /\ calls' = Append(calls, Call("chdir", Slash, ok))
        /\ cwd' = IF ok THEN "primary" ELSE cwd
        /\ rootSwapped' = (rootSwapped /\ ok)
        /\ oldRootAttached' = (oldRootAttached /\ ok)
        /\ IF ok THEN Goto(p, "unmount") /\ UNCHANGED <<pivotErr, out>>
                 ELSE PivotFail(p, "chdir to / failed after pivot_root")
    /\ UNCHANGED <<argv, namespaces, binPath, cmd, strategyUsed, holdingDir,
                   chrooted, procMounted, tstate, texit>>

\* syscall.Chdir("/") after pivot_root
PivotChdir(p) ==
    /\ pc[p] = "pchdir"
    /\ \E ok \in BOOLEAN :
        /\ calls' = Append(calls, Call("chdir", Slash, ok))
        /\ cwd' = IF ok THEN "primary" ELSE cwd
        /\ IF ok THEN Goto(p, "unmount") /\ UNCHANGED <<pivotErr, out>>
                 ELSE PivotFail(p, "chdir to / failed after pivot_root")
    /\ UNCHANGED <<argv, namespaces, binPath, cmd, strategyUsed, holdingDir,
                   rootSwapped, oldRootAttached, chrooted, procMounted,
                   tstate, texit>>

\* Isolate returning the error of the unmount instead of logging it
PivotUnmount_Fatal(p) ==
    /\ pc[p] = "unmount"
    /\ \E ok \in BOOLEAN :
        /\ calls' = Append(calls, Call("umount", Slash \o oldRootDir, ok))
        /\ oldRootAttached' = (oldRootAttached /\ ~ok)
        /\ IF ok THEN Goto(p, "remove") /\ UNCHANGED <<pivotErr, out>>
                 ELSE PivotFail(p, "unmounting old root failed")
    /\ UNCHANGED <<argv, namespaces, binPath, cmd, strategyUsed, holdingDir,
                   rootSwapped, chrooted, cwd, procMounted, tstate, texit>>

\* syscall.Unmount("/.old_root", MNT_DETACH): a failure is only a warning
PivotUnmount(p) ==
    /\ pc[p] = "unmount"
    /\ \E ok \in BOOLEAN :
        /\ calls' = Append(calls, Call("umount", Slash \o oldRootDir, ok))
        /\ oldRootAttached' = (oldRootAttached /\ ~ok)
        /\ out' = IF ok THEN out
                  ELSE Append(out, Msg("Warning: unmounting old root failed", "umount"))
    /\ Goto(p, "remove")
    /\ UNCHANGED <<argv, namespaces, binPath, cmd, pivotErr, strategyUsed, holdingDir,
                   rootSwapped, chrooted, cwd, procMounted, tstate, texit>>

\* ChrootIsolator.Isolate going on to chdir whatever syscall.Chroot returned
Chroot_Unchecked(p) ==
    /\ pc[p] = "chroot"
    /\ \E ok \in BOOLEAN :
        /\ calls' = Append(calls, Call("chroot", rootfs(p), ok))
        /\ chrooted' = (chrooted \/ ok)
    /\ out' = out
    /\ Goto(p, "cchdir")
    /\ UNCHANGED <<argv, namespaces, binPath, cmd, pivotErr, strategyUsed, holdingDir,
                   rootSwapped, oldRootAttached, cwd, procMounted, tstate, texit>>

\* child() calling the chroot isolator whatever the pivot_root isolator returned
PivotRemove_ThenChroot(p) ==
    /\ pc[p] = "remove"
    /\ \E ok \in (IF oldRootAttached THEN {FALSE} ELSE BOOLEAN) :
        /\ calls' = Append(calls, Call("remove", Slash \o oldRootDir, ok))
        /\ holdingDir' = (holdingDir /\ ~ok)
        /\ out' = (IF ok THEN out
                   ELSE Append(out, Msg("Warning: removing old root directory failed", "remove")))
                  \o <<Msg("Successfully using pivot_root", nil)>>
    /\ strategyUsed' = "primary"
    /\ Goto(p, "chroot")
    /\ UNCHANGED <<argv, namespaces, binPath, cmd, pivotErr, rootSwapped,
                   oldRootAttached, chrooted, cwd, procMounted, tstate, texit>>

\* os.Remove("/.old_root"): a failure is only a warning; a directory that is
\* still a mount point cannot be removed.  Then Isolate returns nil.
PivotRemove(p) ==
    /\ pc[p] = "remove"
    /\ \E ok \in (IF oldRootAttached THEN {FALSE} ELSE BOOLEAN) :
        /\ calls' = Append(calls, Call("remove", Slash \o oldRootDir, ok))
        /\ holdingDir' = (holdingDir /\ ~ok)
        /\ out' = (IF ok THEN out
                   ELSE Append(out, Msg("Warning: removing old root directory failed", "remove")))
                  \o <<Msg("Successfully using pivot_root", nil)>>
    /\ strategyUsed' = "primary"
    /\ Goto(p, "mount")
    /\ UNCHANGED <<argv, namespaces, binPath, cmd, pivotErr, rootSwapped,
                   oldRootAttached, chrooted, cwd, procMounted, tstate, texit>>

\* child() falling back to chroot without printing the warning
Fallback_Silent(p) ==
    /\ pc[p] = "fallback"
    /\ out' = out
    /\ Goto(p, "chroot")
    /\ UNCHANGED <<argv, namespaces, binPath, cmd, pivotErr, strategyUsed, isoVars,
                   tstate, texit, calls>>

\* child(): err != nil after the pivot_root attempt: print the warning with
\* the error, then call ChrootIsolator.Isolate
Fallback(p) ==
    /\ pc[p] = "fallback"
    /\ out' = Append(out, Msg("pivot_root failed: Falling back to chroot...", pivotErr))
    /\ Goto(p, "chroot")
    /\ UNCHANGED <<argv, namespaces, binPath, cmd, pivotErr, strategyUsed, isoVars,
                   tstate, texit, calls>>

-----------------------------------------------------------------------------
(* ChrootIsolator.Isolate, one action per step; child() passes its result   *)
(* to handle                                                               *)

\* syscall.Chroot(rootfs)
Chroot(p) ==
    /\ pc[p] = "chroot"
    /\ \E ok \in BOOLEAN :
        /\ calls' = Append(calls, Call("chroot", rootfs(p), ok))
        /\ chrooted' = (chrooted \/ ok)
        /\ handle(p, IF ok THEN nil ELSE "chroot failed",
                  out' = out /\ Goto(p, "cchdir"))
    /\ UNCHANGED <<argv, namespaces, binPath, cmd, pivotErr, strategyUsed, holdingDir,
                   rootSwapped, oldRootAttached, cwd, procMounted, tstate, texit>>

\* ChrootIsolator.Isolate returning nil whatever syscall.Chdir returned
ChrootChdir_Unchecked(p) ==
    /\ pc[p] = "cchdir"
    /\ \E ok \in BOOLEAN :
        /\ calls' = Append(calls, Call("chdir", Slash, ok))
        /\ cwd' = IF ok THEN "legacy" ELSE cwd
    /\ strategyUsed' = "legacy"
    /\ out' = Append(out, Msg("Using chroot for filesystem isolation", nil))
    /\ Goto(p, "mount")
    /\ UNCHANGED <<argv, namespaces, binPath, cmd, pivotErr, holdingDir, rootSwapped,
                   oldRootAttached, chrooted, procMounted, tstate, texit>>

\* syscall.Chdir("/") after chroot; then Isolate returns nil
ChrootChdir(p) ==
    /\ pc[p] = "cchdir"
    /\ \E ok \in BOOLEAN :
        /\ calls' = Append(calls, Call("chdir", Slash, ok))
        /\ cwd' = IF ok THEN "legacy" ELSE cwd
        /\ strategyUsed' = IF ok THEN "legacy" ELSE strategyUsed
        /\ handle(p, IF ok THEN nil ELSE "chdir to / failed after chroot",
                  /\ out' = Append(out, Msg("Using chroot for filesystem isolation", nil))
                  /\ Goto(p, "mount"))
    /\ UNCHANGED <<argv, namespaces, binPath, cmd, pivotErr, holdingDir, rootSwapped,
                   oldRootAttached, chrooted, procMounted, tstate, texit>>

-----------------------------------------------------------------------------
(* child(): the /proc mount and the target command *)

\* child() calling mountProc without passing its result to handle
mountProc_Unchecked(p) ==
    /\ pc[p] = "mount"
    /\ \E ok \in BOOLEAN :
        /\ calls' = Append(calls, Call("mount", procFS, ok))
        /\ procMounted' = (procMounted \/ ok)
    /\ out' = out
    /\ Goto(p, "start")
    /\ UNCHANGED <<argv, namespaces, binPath, cmd, pivotErr, strategyUsed, holdingDir,
                   rootSwapped, oldRootAttached, chrooted, cwd, tstate, texit>>

\* handle(mountProc()): syscall.Mount(procFS, procFS, procFS, 0, "")
mountProc(p) ==
    /\ pc[p] = "mount"
    /\ \E ok \in BOOLEAN :
        /\ calls' = Append(calls, Call("mount", procFS, ok))
        /\ procMounted' = (procMounted \/ ok)
        /\ handle(p, IF ok THEN nil ELSE "mount failed",
                  out' = out /\ Goto(p, "start"))
    /\ UNCHANGED <<argv, namespaces, binPath, cmd, pivotErr, strategyUsed, holdingDir,
                   rootSwapped, oldRootAttached, chrooted, cwd, tstate, texit>>

\* child() calling cmd.Run() without passing its result to handle: a command
\* that cannot be started lets child() and main() return
CmdStart_Unchecked(p) ==
    /\ pc[p] = "start"
    /\ \E ok \in BOOLEAN :
        /\ calls' = Append(calls, Call("exec", cmd.Path, ok))
        /\ tstate' = IF ok THEN "running" ELSE tstate
        /\ out' = out
        /\ IF ok THEN Goto(p, "waitcmd") ELSE Exit(p, ExitSuccess)
    /\ UNCHANGED <<argv, namespaces, binPath, cmd, pivotErr, strategyUsed, isoVars, texit>>

\* handle(cmd.Run()), first half: the target command is started as a new
\* process, or cannot be started
CmdStart(p) ==
    /\ pc[p] = "start"
    /\ \E ok \in BOOLEAN :
        /\ calls' = Append(calls, Call("exec", cmd.Path, ok))
        /\ tstate' = IF ok THEN "running" ELSE tstate
        /\ handle(p, IF ok THEN nil ELSE "exec failed",
                  out' = out /\ Goto(p, "waitcmd"))
    /\ UNCHANGED <<argv, namespaces, binPath, cmd, pivotErr, strategyUsed, isoVars, texit>>

\* the target command terminates with some status
TargetExit ==
    /\ tstate = "running"
    /\ \E c \in 0..MaxCode : texit' = c
    /\ tstate' = "exited"
    /\ UNCHANGED <<pc, argv, exitc, namespaces, binPath, cmd, pivotErr, strategyUsed,
                   isoVars, calls, out>>

\* child() ending with os.Exit(1) whatever cmd.Run() returned
CmdWait_ExitFailure(p) ==
    /\ pc[p] = "waitcmd"
    /\ tstate = "exited"
    /\ out' = out
    /\ Exit(p, ExitFailure)
    /\ UNCHANGED <<argv, namespaces, binPath, cmd, pivotErr, strategyUsed, isoVars,
                   tstate, texit, calls>>

\* handle(cmd.Run()), second half: cmd.Run() returns when the target has
\* terminated; a non-zero status is an error for handle, otherwise child()
\* and main() return
CmdWait(p) ==
    /\ pc[p] = "waitcmd"
    /\ tstate = "exited"
    /\ handle(p, IF texit = 0 THEN nil ELSE "exit status",
              out' = out /\ Exit(p, ExitSuccess))
    /\ UNCHANGED <<argv, namespaces, binPath, cmd, pivotErr, strategyUsed, isoVars,
                   tstate, texit, calls>>

\* The spawned process can also be ended from outside its own code (the Go
\* runtime ends a process with a status of its own on a fatal error); run()
\* sees such a status through cmd.Run() like any other.  Its target command,
\* living in the PID namespace it is init of, is killed with it.
InitAbort ==
    /\ pc[1] \notin Terminated \cup {"idle"}
    /\ \E c \in 2..MaxCode :
        /\ pc' = [pc EXCEPT ![1] = "aborted"]
        /\ exitc' = [exitc EXCEPT ![1] = c]
    /\ tstate' = IF tstate = "running" THEN "killed" ELSE tstate
    /\ UNCHANGED <<argv, namespaces, binPath, cmd, pivotErr, strategyUsed, isoVars,
                   texit, calls, out>>

-----------------------------------------------------------------------------

Next ==
    \/ \E p \in Procs : MainUsage(p)
    \/ \E p \in Procs : MainDispatch(p)
    \/ \E p \in Procs : RunCheck(p)
    \/ \E p \in Procs : RunSpawn(p)
    \/ \E p \in Procs : RunWait(p)
    \/ \E p \in Procs : ChildCheck(p)
    \/ \E p \in Procs : validateRootfs(p)
    \/ \E p \in Procs : ResolveCmd(p)
    \/ \E p \in Procs : PivotAbs(p)
    \/ \E p \in Procs : PivotMkdir(p)
    \/ \E p \in Procs : PivotSwap(p)
    \/ \E p \in Procs : PivotChdir(p)
    \/ \E p \in Procs : PivotUnmount(p)
    \/ \E p \in Procs : PivotRemove(p)
    \/ \E p \in Procs : Fallback(p)
    \/ \E p \in Procs : Chroot(p)
    \/ \E p \in Procs : ChrootChdir(p)
    \/ \E p \in Procs : mountProc(p)
    \/ \E p \in Procs : CmdStart(p)
    \/ TargetExit
    \/ \E p \in Procs : CmdWait(p)
    \/ InitAbort

Spec == Init /\ [][Next]_vars

\* the same behaviours under the assumption that a step that can be taken
\* is taken: every call returns and the target command terminates
FairSpec == Init /\ [][Next]_vars /\ WF_vars(Next)

TypeOK ==
    /\ pc \in [Procs -> {"idle", "main", "run", "spawn", "wait", "child",
                         "validate", "resolve", "abs", "mkdir", "pivot",
                         "pchdir", "unmount", "remove", "fallback", "chroot",
                         "cchdir", "mount", "start", "waitcmd", "exited",
                         "aborted"}]
    /\ exitc \in [Procs -> -1..MaxCode]
    /\ namespaces \subseteq Cloneflags
    /\ strategyUsed \in {"none", "primary", "legacy"}
    /\ cwd \in {"initial", "primary", "legacy"}
    /\ tstate \in {"none", "running", "exited", "killed"}
    /\ texit \in -1..MaxCode
    /\ {holdingDir, rootSwapped, oldRootAttached, chrooted, procMounted} \subseteq BOOLEAN

-----------------------------------------------------------------------------
(* Vocabulary of the properties *)

Idx == 1..Len(calls)
Attempted(op) == \E i \in Idx : calls[i].op = op

\* p runs (or ran) child()
IsInit(p) == pc[p] # "idle" /\ Len(argv[p]) >= 1 /\ argv[p][1] = ChildWord
\* p runs (or ran) run()
IsLauncher(p) == pc[p] # "idle" /\ Len(argv[p]) >= 1 /\ argv[p][1] = RunWord

IsoOps == {"mkdir", "pivot_root", "chroot", "chdir", "umount", "remove"}

\* call i is a failed step of the Primary strategy
PrimaryFailedAt(i) ==
    /\ ~calls[i].ok
    /\ \/ calls[i].op \in {"getwd", "mkdir", "pivot_root"}
       \/ calls[i].op = "chdir" /\ \A j \in 1..(i - 1) : calls[j].op # "chroot"

\* call i is a failed step of the Legacy strategy
LegacyFailedAt(i) ==
    /\ ~calls[i].ok
    /\ \/ calls[i].op = "chroot"
       \/ calls[i].op = "chdir" /\ \E j \in 1..(i - 1) : calls[j].op = "chroot"

\* the error text Isolate wraps around the failure of each Primary step
PrimaryDetail(op) ==
    CASE op = "getwd" -> "cannot get absolute path"
      [] op = "mkdir" -> "cannot create old_root directory"
      [] op = "pivot_root" -> "pivot_root failed"
      [] op = "chdir" -> "chdir to / failed after pivot_root"

Printed(m) == \E k \in 1..Len(out) : out[k] = m

-----------------------------------------------------------------------------
(* C1 *)

\* C1: when a step of the Primary strategy has failed (getwd, mkdir,
\* pivot_root or its chdir), the process does not go straight to an exit: in
\* every state where Init has exited, the fallback warning with the detail
\* of that step has been printed and chroot has been attempted after the
\* failed step; and the step that fails never itself ends the process.
C1_FallbackBeforeExit ==
    \A p \in Procs : \A i \in Idx :
        (IsInit(p) /\ PrimaryFailedAt(i)) =>
            /\ pivotErr = PrimaryDetail(calls[i].op)
            /\ (i = Len(calls) => pc[p] \in {"fallback", "chroot", "aborted"})
            /\ (pc[p] = "exited" =>
                   /\ Printed(Msg("pivot_root failed: Falling back to chroot...",
                                  PrimaryDetail(calls[i].op)))
                   /\ \E j \in (i + 1)..Len(calls) : calls[j].op = "chroot")

\* witness: Init has exited after a Primary failure at the root swap
C1_Witness ==
    \E p \in Procs : \E i \in Idx :
        /\ IsInit(p) /\ pc[p] = "exited"
        /\ PrimaryFailedAt(i) /\ calls[i].op = "pivot_root"

-----------------------------------------------------------------------------
(* C2 *)

\* C2 (as claimed): once a strategy has reported success, the effect of
\* exactly one strategy is in place: the root swap or the chroot, never both
\* and never neither.
C2_ExactlyOneEffect ==
    strategyUsed # "none" => (rootSwapped /\ ~chrooted) \/ (chrooted /\ ~rootSwapped)

-----------------------------------------------------------------------------
(* C3 *)

\* C3: if a step of the Legacy strategy has failed (chroot or its chdir),
\* Init has exited with a non-zero code, and neither the /proc mount nor the
\* launch of the target command has been or is ever attempted.
C3_LegacyFailureIsFatal ==
    \A p \in Procs : \A i \in Idx :
        (IsInit(p) /\ LegacyFailedAt(i)) =>
            /\ pc[p] = "exited" /\ exitc[p] # 0
            /\ ~Attempted("mount") /\ ~Attempted("exec")
            /\ ~procMounted /\ tstate = "none"

\* witness: the chdir of the Legacy strategy failed after a successful chroot
C3_Witness ==
    \E p \in Procs : \E i \in Idx :
        IsInit(p) /\ LegacyFailedAt(i) /\ calls[i].op = "chdir" /\ chrooted

-----------------------------------------------------------------------------
(* C4 *)

\* C4 (as claimed): when the spawned process has terminated with status c
\* and the Launcher has exited, the Launcher's exit code is c.
C4_LauncherPropagatesExitCode ==
    (IsLauncher(0) /\ pc[0] = "exited" /\ pc[1] \in Terminated) =>
        exitc[0] = exitc[1]

-----------------------------------------------------------------------------
(* C5 *)

StatFailed == \E i \in Idx : calls[i].op = "stat" /\ ~calls[i].ok

\* C5 (as claimed): when `run` is given a root path that does not exist,
\* the path is rejected with no namespace created and no isolation call made.
C5_ValidationBeforeNamespaces ==
    (IsLauncher(0) /\ StatFailed) =>
        /\ namespaces = {} /\ ~Attempted("clone")
        /\ \A i \in Idx : calls[i].op \notin IsoOps

\* C5 (amended): when `run` is given a root path that does not exist, the
\* path is rejected by Init, after the Launcher has created the namespaces
\* with the spawn, and before any isolation call (mkdir, pivot_root,
\* chroot, chdir, umount, remove) or mount is made.
C5_ValidationBeforeIsolation ==
    (IsLauncher(0) /\ StatFailed) =>
        /\ namespaces = Cloneflags
        /\ calls = <<Call("clone", SelfExe, TRUE), Call("stat", rootfs(1), FALSE)>>
        /\ pc[1] = "exited" /\ exitc[1] # 0
        /\ ~holdingDir /\ ~rootSwapped /\ ~chrooted

\* witness: the Launcher has spawned Init and Init's validation has failed
C5_Witness ==
    IsLauncher(0) /\ StatFailed /\ rootfs(1) = <<"/", "a">> /\ pc[0] = "exited"

-----------------------------------------------------------------------------
(* C6 *)

\* C6 (as claimed): once the target command has been launched, Init is the
\* target command: it takes no step of its own, so when both have ended the
\* exit status of the Init process is the target command's own.
C6_InitBecomesTarget ==
    \A p \in Procs :
        (IsInit(p) /\ tstate = "exited" /\ pc[p] = "exited") => exitc[p] = texit

-----------------------------------------------------------------------------
(* C7 *)

\* call j completes the isolation step: the last step of the Primary
\* strategy (remove), or the successful chdir of the Legacy strategy
IsolationCompletedAt(j) ==
    \/ calls[j].op = "remove"
    \/ /\ calls[j].op = "chdir" /\ calls[j].ok
       /\ \E k \in 1..(j - 1) : calls[k].op = "chroot" /\ calls[k].ok

\* C7: the /proc mount is attempted only after the isolation step has
\* completed with a strategy that reported success, the target command is
\* launched only after the /proc mount has succeeded, no isolation call
\* follows the mount, and neither an isolation call nor a mount follows the
\* launch; the mount and the launch are each attempted at most once.
C7_StrictOrder ==
    \A i \in Idx :
        /\ calls[i].op = "mount" =>
              /\ strategyUsed # "none"
              /\ \E j \in 1..(i - 1) : IsolationCompletedAt(j)
              /\ \A k \in (i + 1)..Len(calls) : calls[k].op \notin IsoOps \cup {"mount"}
        /\ calls[i].op = "exec" =>
              /\ procMounted
              /\ \E j \in 1..(i - 1) : calls[j].op = "mount" /\ calls[j].ok
              /\ \A k \in (i + 1)..Len(calls) : calls[k].op \notin IsoOps \cup {"mount", "exec"}

\* witness: the target command has been launched after a Legacy isolation
C7_Witness ==
    /\ Attempted("exec") /\ tstate = "running"
    /\ strategyUsed = "legacy"

-----------------------------------------------------------------------------
(* C8 *)

\* C8 (as claimed): a process started with no subcommand or with a
\* subcommand other than run and child prints the usage text and ends with
\* a non-zero exit code.
C8_UnknownFormExitsNonZero ==
    (pc[0] = "exited" /\ (argv[0] = <<>> \/ argv[0][1] \notin {RunWord, ChildWord})) =>
        Printed(Usage) /\ exitc[0] # 0

-----------------------------------------------------------------------------
(* C9 *)

\* the Launcher has refused the request: usage printed, non-zero exit, no
\* spawn attempted, a state it cannot leave
Refused(p) ==
    /\ pc[p] = "exited" /\ exitc[p] # 0
    /\ out = <<Usage>>
    /\ calls = <<>> /\ namespaces = {} /\ pc[1] = "idle"

\* C9 (as claimed): once the Launcher's argument check is done, a request
\* whose rootPath or command is missing or is the empty string has been
\* refused with a usage error and a non-zero exit code, with no namespace
\* requested and no process spawned.
C9_RejectsMissingOrEmpty ==
    (/\ IsLauncher(0) /\ pc[0] \notin {"main", "run"}
     /\ \/ Len(args(0)) < 2
        \/ args(0)[1] = <<>>
        \/ args(0)[2] = <<>>)
    => Refused(0)

\* C9 (amended): once the Launcher's argument check is done, a request with
\* fewer than two arguments (rootPath or command missing) has been refused
\* with a usage error and a non-zero exit code, with no namespace requested
\* and no process spawned; a request with two or more arguments is not
\* refused with a usage error, whatever the strings are (an empty rootPath
\* or command and an empty commandArgs list included): the spawn follows.
C9_RejectsMissing ==
    (IsLauncher(0) /\ pc[0] \notin {"main", "run"}) =>
        /\ Len(args(0)) < 2 => Refused(0)
        /\ Len(args(0)) >= 2 =>
              /\ ~Printed(Usage)
              /\ pc[0] = "spawn" \/ Attempted("clone")

\* witness: `run <rootPath>` with the command missing has been refused
C9_Witness ==
    IsLauncher(0) /\ Len(args(0)) = 1 /\ pc[0] = "exited"

-----------------------------------------------------------------------------
(* C10 *)

HasSeparator(s) == \E i \in 1..Len(s) : s[i] = "/"

\* Init is past command resolution: getCmdPath has printed its message
Resolved(p) ==
    /\ IsInit(p)
    /\ Printed(Msg("INFO bin", nil)) \/ Printed(Msg("WARNING absolute path", nil))

\* validation has succeeded and no call of the isolation step has been made
BetweenValidationAndIsolation(p) ==
    /\ calls[Len(calls)] = Call("stat", rootfs(p), TRUE)
    /\ \A i \in Idx : calls[i].op \notin IsoOps \cup {"getwd", "mount", "exec"}

\* C10 (as claimed): after command resolution, a command with no path
\* separator has the resolved path /bin/<name> and a command with a path
\* separator has the command itself as resolved path; resolution happens
\* after validation and before the isolation step.
C10_ResolvedPath ==
    \A p \in Procs :
        /\ Resolved(p) =>
              binPath = IF HasSeparator(cmdArgs(p)[1]) THEN cmdArgs(p)[1]
                        ELSE BinDir \o cmdArgs(p)[1]
        /\ (IsInit(p) /\ pc[p] = "resolve") => BetweenValidationAndIsolation(p)

\* C10 (amended): after command resolution, a command with no path
\* separator other than "", "." and ".." has the resolved path /bin/<name>,
\* and a command with a path separator has the command itself as resolved
\* path; for "" and "." the resolved path is /bin and for ".." it is /, the
\* cleaned form of the joined path; resolution happens after validation and
\* before the isolation step.
C10_ResolvedPathCleaned ==
    \A p \in Procs :
        /\ Resolved(p) =>
              LET c == cmdArgs(p)[1]
              IN binPath = IF HasSeparator(c) THEN c
                           ELSE IF c \in {<<>>, <<".">>} THEN <<"/", "b", "i", "n">>
                           ELSE IF c = <<".", ".">> THEN <<"/">>
                           ELSE BinDir \o c
        /\ (IsInit(p) /\ ~Resolved(p)) => binPath = <<>>
        /\ (IsInit(p) /\ pc[p] = "resolve") => BetweenValidationAndIsolation(p)

\* witness: a bare name and, in another run, a command with a separator
\* have been resolved and the isolation step has begun
C10_Witness ==
    \E p \in Procs :
        /\ Resolved(p) /\ Attempted("mkdir")
        /\ cmdArgs(p)[1] = <<"a", ".">>
        /\ binPath = <<"/", "b", "i", "n", "/", "a", ".">>

-----------------------------------------------------------------------------
(* C11 *)

\* C11: when process 1 has been spawned, the spawn was the Launcher's one
\* clone request, made with the three namespace flags, and the argument
\* list of process 1 is "child" followed by the Launcher's rootPath, command
\* and commandArgs in their order; hence every call Init makes on the root
\* (stat, mkdir, pivot_root, chroot) is made on the Launcher's rootPath and
\* the command it launches is the Launcher's command, resolved, with the
\* Launcher's commandArgs.
C11_SpawnArguments ==
    pc[1] # "idle" =>
        /\ calls[1] = Call("clone", SelfExe, TRUE)
        /\ \A i \in 2..Len(calls) : calls[i].op # "clone"
        /\ namespaces = {"CLONE_NEWUTS", "CLONE_NEWPID", "CLONE_NEWNS"}
        /\ Len(argv[1]) = Len(argv[0])
        /\ argv[1][1] = ChildWord
        /\ \A k \in 2..Len(argv[0]) : argv[1][k] = argv[0][k]
        /\ \A i \in Idx :
              /\ calls[i].op \in {"stat", "chroot"} => calls[i].path = argv[0][2]
              /\ calls[i].op = "pivot_root" => calls[i].path = Abs(argv[0][2])
              /\ calls[i].op = "mkdir" =>
                    calls[i].path = Join(Abs(argv[0][2]), oldRootDir)
              /\ calls[i].op = "exec" =>
                    /\ calls[i].path = getCmdPath(argv[0][3])
                    /\ cmd.Args = <<getCmdPath(argv[0][3])>>
                                  \o SubSeq(argv[0], 4, Len(argv[0]))

\* witness: Init, spawned by the Launcher with a command argument, has
\* launched the command after a chroot
C11_Witness ==
    /\ pc[1] # "idle" /\ Len(argv[0]) = 4
    /\ Attempted("chroot") /\ Attempted("exec")

-----------------------------------------------------------------------------
(* C12 *)

\* call i is the successful chdir of the Primary strategy
PrimaryChdirOkAt(i) ==
    /\ calls[i].op = "chdir" /\ calls[i].ok
    /\ \A j \in 1..(i - 1) : calls[j].op # "chroot"

\* C12: after the successful chdir of the Primary strategy the next two
\* calls are the unmount and the removal of the holding directory, both made
\* whatever the result of the first; whatever their results, Primary then
\* reports success, no error is returned to child(), chroot is never
\* attempted, and the call after them is the /proc mount, which an Init that
\* has exited has made.
C12_CleanupIsBestEffort ==
    \A p \in Procs : \A i \in Idx :
        (IsInit(p) /\ PrimaryChdirOkAt(i)) =>
            /\ pivotErr = nil
            /\ ~Attempted("chroot") /\ ~chrooted
            /\ Len(calls) >= i + 1 => calls[i + 1].op = "umount"
            /\ Len(calls) >= i + 2 =>
                  calls[i + 2].op = "remove" /\ strategyUsed = "primary"
            /\ Len(calls) >= i + 3 => calls[i + 3].op = "mount"
            /\ pc[p] = "exited" => Len(calls) >= i + 3

\* witness: both cleanup steps failed and /proc has been mounted
C12_Witness ==
    \E i \in Idx :
        /\ PrimaryChdirOkAt(i) /\ Len(calls) >= i + 3
        /\ ~calls[i + 1].ok /\ ~calls[i + 2].ok
        /\ procMounted

-----------------------------------------------------------------------------
(* C13 *)

Count(op) == Cardinality({i \in Idx : calls[i].op = op})

\* C13: every chroot attempt comes after a failed step of the Primary
\* strategy and in a run where Primary has not reported success (it has not
\* reached its last step); each step of either strategy is attempted at most
\* once, so each strategy is invoked at most once; and a failed step of the
\* Legacy strategy is the last call Init makes.
C13_LegacyOnlyAfterPrimaryFailure ==
    /\ \A i \in Idx :
          /\ calls[i].op = "chroot" =>
                /\ \E j \in 1..(i - 1) : PrimaryFailedAt(j)
                /\ ~Attempted("remove") /\ strategyUsed # "primary"
                /\ pivotErr # nil
          /\ LegacyFailedAt(i) => i = Len(calls)
    /\ \A op \in {"getwd", "mkdir", "pivot_root", "umount", "remove", "chroot"} :
          Count(op) <= 1
    /\ Count("chdir") <= 2
    /\ strategyUsed = "primary" => ~chrooted /\ Count("chdir") = 1

\* witness: the Legacy strategy has failed at chroot after a Primary failure
C13_Witness ==
    \E i \in Idx : calls[i].op = "chroot" /\ ~calls[i].ok /\ Attempted("mkdir")

-----------------------------------------------------------------------------
(* C14 *)

MountFailed == \E i \in Idx : calls[i].op = "mount" /\ ~calls[i].ok

\* C14: if the mount of the process-information filesystem has failed, Init
\* has exited with a non-zero code after printing the error, the mount is
\* the last call it made, and the target command has not been and is never
\* launched.
C14_MountFailureIsFatal ==
    \A p \in Procs :
        (IsInit(p) /\ MountFailed) =>
            /\ pc[p] = "exited" /\ exitc[p] # 0
            /\ calls[Len(calls)].op = "mount"
            /\ Printed(Msg("error", "mount failed"))
            /\ ~Attempted("exec") /\ tstate = "none" /\ ~procMounted

\* witness: the mount failed after a successful Primary isolation
C14_Witness ==
    MountFailed /\ strategyUsed = "primary" /\ rootSwapped

-----------------------------------------------------------------------------
(* C15 *)

CloneFailed == \E i \in Idx : calls[i].op = "clone" /\ ~calls[i].ok
ExecFailed == \E i \in Idx : calls[i].op = "exec" /\ ~calls[i].ok

\* a fatal failure of Init's own steps
InitFailed ==
    \/ StatFailed
    \/ \E i \in Idx : LegacyFailedAt(i)
    \/ MountFailed
    \/ ExecFailed

\* the process the user started has ended in a failing outcome: a usage
\* error, a failed spawn, or a fatal failure of a step of Init
FailingOutcome ==
    /\ pc[0] = "exited"
    /\ \/ Printed(Usage)
       \/ CloneFailed
       \/ IsInit(0) /\ InitFailed

\* C15 (as claimed): every failing outcome ends the process with the one
\* failure exit code, never with 0 and never with another code.
C15_SingleFailureCode ==
    /\ FailingOutcome => exitc[0] = ExitFailure
    /\ (pc[1] = "exited" /\ InitFailed) => exitc[1] = ExitFailure

-----------------------------------------------------------------------------
(* C16 *)

InitRunning == pc[1] \notin {"idle", "exited", "aborted"}

\* the Launcher is where it has to be for each position of the spawned Init
C16_Joined ==
    /\ pc[1] # "idle" =>
          /\ IsLauncher(0) /\ Len(args(0)) >= 2
          /\ calls[1] = Call("clone", SelfExe, TRUE)
    /\ InitRunning => pc[0] = "wait" /\ exitc[0] = -1
    /\ pc[1] = "idle" => \A i \in Idx : calls[i].op = "clone" \/ IsInit(0)

\* what a step may do to the two processes
C16_Step ==
    /\ InitRunning => pc'[0] = pc[0] /\ exitc'[0] = exitc[0]
    /\ (pc[1] = "idle" /\ pc'[1] # "idle") =>
          /\ pc[0] = "spawn" /\ pc'[0] = "wait" /\ pc'[1] = "main"
          /\ Len(calls') = 1
    /\ (pc[0] = "wait" /\ pc'[0] # "wait") => pc[1] \in Terminated

\* C16: from the spawn on, the Launcher stays in its wait and has no exit
\* code for as long as Init has not terminated, and it leaves the wait only
\* when Init has terminated; Init leaves its idle state only by the
\* Launcher's spawn, which follows the Launcher's argument check and is the
\* Launcher's only call.
C16_ParentWaitsForChild == [](C16_Joined) /\ [][C16_Step]_vars

\* witness: the Launcher waits while Init waits for the running target
C16_Witness ==
    pc[0] = "wait" /\ pc[1] = "waitcmd" /\ tstate = "running"

-----------------------------------------------------------------------------
(* C17 *)

\* C17: the spawn is attempted at most once; if it has failed, the Launcher
\* has exited with the failure exit code after printing the error, no
\* namespace exists, and process 1 has never run.
C17_SpawnFailureIsFatal ==
    /\ Count("clone") <= 1
    /\ CloneFailed =>
          /\ pc[0] = "exited" /\ exitc[0] = ExitFailure
          /\ out = <<Msg("error", "fork/exec failed")>>
          /\ pc[1] = "idle" /\ argv[1] = <<>> /\ exitc[1] = -1
          /\ namespaces = {}
          /\ Len(calls) = 1

\* witness: the spawn has failed
C17_Witness ==
    CloneFailed /\ IsLauncher(0) /\ Len(args(0)) = 2

-----------------------------------------------------------------------------
(* C18 *)

\* C18: when Init's validation has failed, Init has exited with a non-zero
\* code and nothing else has been done: the stat is the last call, no call
\* of either strategy and no mount or launch was made, the holding directory
\* does not exist, the root and the working directory are unchanged, and
\* the command was not even resolved.
C18_ValidationFailureHasNoEffect ==
    \A p \in Procs :
        (IsInit(p) /\ StatFailed) =>
            /\ pc[p] = "exited" /\ exitc[p] # 0
            /\ calls[Len(calls)].op = "stat"
            /\ \A i \in Idx : calls[i].op \in {"clone", "stat"}
            /\ ~holdingDir /\ ~rootSwapped /\ ~oldRootAttached /\ ~chrooted
            /\ cwd = "initial" /\ ~procMounted
            /\ pivotErr = nil /\ strategyUsed = "none"
            /\ binPath = <<>> /\ tstate = "none"

\* witness: Init, started directly, has failed its validation
C18_Witness ==
    IsInit(0) /\ StatFailed /\ rootfs(0) = <<"a">>

-----------------------------------------------------------------------------
(* C19 *)

CallOk(op) == \E i \in Idx : calls[i].op = op /\ calls[i].ok

\* every step has succeeded with the Primary strategy, and the target
\* command, launched by the spawned Init, has ended with status 0
PrimaryRunSucceeded ==
    /\ IsLauncher(0) /\ pc[1] # "aborted"
    /\ strategyUsed = "primary"
    /\ CallOk("mount") /\ CallOk("exec")
    /\ tstate = "exited" /\ texit = 0

\* C19: in a run where every step succeeds with the Primary strategy and
\* the target command ends with status 0, chroot is never attempted, Init
\* ends with status 0 and the Launcher, which ends only after Init, ends
\* with exit code 0.
C19_PrimarySuccessExitsZero ==
    PrimaryRunSucceeded =>
        /\ ~Attempted("chroot") /\ ~chrooted /\ rootSwapped
        /\ pc[1] \in {"waitcmd", "exited"}
        /\ pc[1] = "exited" => exitc[1] = 0
        /\ pc[0] \in {"wait", "exited"}
        /\ pc[0] = "exited" => (exitc[0] = 0 /\ pc[1] = "exited")

\* witness: such a run has ended
C19_Witness ==
    PrimaryRunSucceeded /\ pc[0] = "exited"

-----------------------------------------------------------------------------
(* C20 *)

\* the calls of the isolation step and after, as pairs of call and result
RECURSIVE StepsFrom(_)
StepsFrom(i) ==
    IF i > Len(calls) THEN <<>>
    ELSE IF calls[i].op \in {"clone", "stat", "getwd"} THEN StepsFrom(i + 1)
    ELSE <<<<calls[i].op, calls[i].ok>>>> \o StepsFrom(i + 1)

PivotSwapFailed == \E i \in Idx : calls[i].op = "pivot_root" /\ ~calls[i].ok

FallbackWarning(d) == Msg("pivot_root failed: Falling back to chroot...", d)

\* position of the first message m in the output, 0 if it was not printed
PrintedAt(m) ==
    IF Printed(m) THEN CHOOSE k \in 1..Len(out) :
                           out[k] = m /\ \A j \in 1..(k - 1) : out[j] # m
    ELSE 0

\* C20: when the root swap has failed, Primary has reported the error of
\* the root swap and no root swap is in effect; once chroot is attempted the
\* fallback warning with that error has been printed; when the Legacy
\* strategy has then succeeded its message follows the warning; when the
\* target command has been launched the calls were exactly mkdir, the
\* failed pivot_root, chroot, chdir, mount and the launch, all but the
\* pivot_root successful; and when the target has ended with status 0, Init
\* ends with exit code 0 and so does the Launcher.
C20_SameFilesystemFallback ==
    \A p \in Procs :
        (IsInit(p) /\ PivotSwapFailed) =>
            /\ pivotErr = "pivot_root failed" /\ ~rootSwapped
            /\ Attempted("chroot") => Printed(FallbackWarning("pivot_root failed"))
            /\ strategyUsed = "legacy" =>
                  /\ chrooted /\ cwd = "legacy"
                  /\ 0 < PrintedAt(FallbackWarning("pivot_root failed"))
                  /\ PrintedAt(FallbackWarning("pivot_root failed"))
                        < PrintedAt(Msg("Using chroot for filesystem isolation", nil))
            /\ tstate # "none" =>
                  /\ StepsFrom(1) = << <<"mkdir", TRUE>>, <<"pivot_root", FALSE>>,
                                       <<"chroot", TRUE>>, <<"chdir", TRUE>>,
                                       <<"mount", TRUE>>, <<"exec", TRUE>> >>
                  /\ procMounted /\ strategyUsed = "legacy"
            /\ (tstate = "exited" /\ texit = 0 /\ pc[p] = "exited") =>
                  /\ exitc[p] = 0
                  /\ (IsLauncher(0) /\ pc[0] = "exited") => exitc[0] = 0

\* witness: such a run, started with `run`, has ended
C20_Witness ==
    /\ PivotSwapFailed /\ IsLauncher(0) /\ pc[0] = "exited"
    /\ tstate = "exited" /\ texit = 0 /\ pc[1] = "exited"

-----------------------------------------------------------------------------
(* C21 *)

\* C21: when the launch of the resolved command has failed, the failure
\* shows at the last step only: a strategy had reported success and /proc
\* had been mounted before it, the launch is the one call ever made on the
\* resolved path (the path was never checked with stat before), it is
\* Init's last call, and Init has exited with a non-zero code after
\* printing the error.
C21_LaunchFailureIsLate ==
    \A p \in Procs :
        (IsInit(p) /\ ExecFailed) =>
            /\ strategyUsed # "none" /\ procMounted
            /\ calls[Len(calls)] = Call("exec", binPath, FALSE)
            /\ \E j \in 1..(Len(calls) - 1) : calls[j] = Call("mount", procFS, TRUE)
            /\ \A j \in 1..(Len(calls) - 1) :
                  /\ calls[j].op # "exec"
                  /\ calls[j].op = "stat" => calls[j].path = rootfs(p)
            /\ Count("stat") = 1
            /\ pc[p] = "exited" /\ exitc[p] # 0
            /\ Printed(Msg("error", "exec failed"))
            /\ tstate = "none"

\* witness: a bare name, resolved under /bin, could not be launched
C21_Witness ==
    \E p \in Procs :
        /\ IsInit(p) /\ ExecFailed
        /\ cmdArgs(p)[1] = <<"a">> /\ binPath = <<"/", "b", "i", "n", "/", "a">>

-----------------------------------------------------------------------------
(* C22 *)

\* C22 (as claimed): in every Init run that is past the isolation step (the
\* /proc mount has been attempted) chroot has been attempted, whether the
\* pivot_root isolator succeeded or failed.
C22_ChrootAlwaysAttempted ==
    Attempted("mount") => Attempted("chroot")

-----------------------------------------------------------------------------
(* C23 *)

\* call i belongs to the Primary strategy
PrimaryCallAt(i) ==
    /\ calls[i].op \in {"getwd", "mkdir", "pivot_root", "chdir", "umount", "remove"}
    /\ \A j \in 1..i : calls[j].op # "chroot"

\* C23: each call of the Primary strategy follows the call of the step
\* before it, which succeeded (mkdir after the successful stat or the
\* successful getwd, pivot_root after a successful mkdir, chdir after a
\* successful pivot_root, umount after a successful chdir, remove after
\* umount whatever its result); after a failed step among the first four no
\* further Primary call is made, so a failed mkdir is never followed by
\* pivot_root and a failed pivot_root never by chdir, umount or remove.
C23_PrimaryStepOrder ==
    \A i \in Idx :
        /\ PrimaryCallAt(i) =>
              /\ i > 1
              /\ calls[i].op = "getwd" => calls[i - 1].op = "stat" /\ calls[i - 1].ok
              /\ calls[i].op = "mkdir" =>
                    calls[i - 1].op \in {"stat", "getwd"} /\ calls[i - 1].ok
              /\ calls[i].op = "pivot_root" =>
                    calls[i - 1].op = "mkdir" /\ calls[i - 1].ok
              /\ calls[i].op = "chdir" =>
                    calls[i - 1].op = "pivot_root" /\ calls[i - 1].ok
              /\ calls[i].op = "umount" =>
                    calls[i - 1].op = "chdir" /\ calls[i - 1].ok
              /\ calls[i].op = "remove" => calls[i - 1].op = "umount"
        /\ PrimaryFailedAt(i) =>
              \A k \in (i + 1)..Len(calls) :
                  /\ ~PrimaryCallAt(k)
                  /\ calls[k].op \notin {"getwd", "mkdir", "pivot_root", "umount", "remove"}

\* witness: the holding directory could not be created and chroot followed
C23_Witness ==
    \E i \in Idx :
        /\ calls[i].op = "mkdir" /\ ~calls[i].ok
        /\ Len(calls) > i /\ calls[i + 1].op = "chroot"

-----------------------------------------------------------------------------
(* C24 *)

\* C24: whenever the target command has been launched (it runs, has ended
\* or was killed), a strategy has reported success, the root is not the
\* original one (swapped or chrooted), the working directory was set by that
\* strategy, and /proc is mounted.
C24_TargetRunsIsolated ==
    tstate # "none" =>
        /\ strategyUsed \in {"primary", "legacy"}
        /\ rootSwapped \/ chrooted
        /\ strategyUsed = "primary" => rootSwapped /\ cwd = "primary"
        /\ strategyUsed = "legacy" => chrooted /\ cwd = "legacy"
        /\ procMounted

\* witness: the target command runs after a Primary isolation
C24_Witness ==
    tstate = "running" /\ strategyUsed = "primary"

-----------------------------------------------------------------------------
(* C25 *)

\* the chdir of the Primary strategy failed at call i
PrimaryChdirFailedAt(i) ==
    calls[i].op = "chdir" /\ ~calls[i].ok /\ PrimaryCallAt(i)

\* C25: once the chdir after a successful root swap has failed, the swap is
\* still in effect (the root is swapped, the old root is still attached,
\* the holding directory is still there), neither umount nor remove is ever
\* attempted, Primary has reported the chdir error, and the next call, if
\* any, is chroot on the rootPath string Init was given.
C25_ChdirFailureKeepsSwap ==
    \A p \in Procs : \A i \in Idx :
        (IsInit(p) /\ PrimaryChdirFailedAt(i)) =>
            /\ calls[i - 1] = Call("pivot_root", absNewRoot(p), TRUE)
            /\ rootSwapped /\ oldRootAttached /\ holdingDir
            /\ ~Attempted("umount") /\ ~Attempted("remove")
            /\ pivotErr = "chdir to / failed after pivot_root"
            /\ strategyUsed # "primary"
            /\ Len(calls) > i => calls[i + 1].op = "chroot" /\ calls[i + 1].path = rootfs(p)

\* witness: a relative rootPath, swapped as an absolute path, then given
\* unchanged to chroot after the chdir failed
C25_Witness ==
    \E p \in Procs : \E i \in Idx :
        /\ IsInit(p) /\ PrimaryChdirFailedAt(i)
        /\ rootfs(p) = <<"a">> /\ absNewRoot(p) # rootfs(p)
        /\ Len(calls) > i /\ calls[i + 1] = Call("chroot", <<"a">>, TRUE)
        /\ rootSwapped

-----------------------------------------------------------------------------
(* C26 *)

\* the chdir of the Legacy strategy is call i
LegacyChdirAt(i) ==
    calls[i].op = "chdir" /\ \E j \in 1..(i - 1) : calls[j].op = "chroot"

\* C26: the chdir of the Legacy strategy directly follows a successful
\* chroot to rootPath; a failed chroot is Init's last call (no chdir
\* follows) and a failed chdir after chroot is Init's last call too: Init
\* has exited with a non-zero code, no strategy has reported success and
\* the root is still the chrooted one.
C26_LegacyStepOrder ==
    \A p \in Procs : IsInit(p) =>
        \A i \in Idx :
            /\ LegacyChdirAt(i) => calls[i - 1] = Call("chroot", rootfs(p), TRUE)
            /\ (calls[i].op = "chroot" /\ ~calls[i].ok) =>
                  /\ i = Len(calls)
                  /\ pc[p] = "exited" /\ exitc[p] # 0
                  /\ strategyUsed = "none"
            /\ (LegacyChdirAt(i) /\ ~calls[i].ok) =>
                  /\ i = Len(calls)
                  /\ pc[p] = "exited" /\ exitc[p] # 0
                  /\ strategyUsed = "none"
                  /\ chrooted
                  /\ Printed(Msg("error", "chdir to / failed after chroot"))

\* witness: chroot succeeded, the chdir after it failed
C26_Witness ==
    \E i \in Idx : LegacyChdirAt(i) /\ ~calls[i].ok /\ chrooted

-----------------------------------------------------------------------------
(* C27 *)

\* C27: once the root swap of the Primary strategy has failed, the holding
\* directory created before it is still there in every later state (while
\* Legacy runs, while the target command runs) and its removal is never
\* attempted; removal is attempted only after a successful swap and a
\* successful chdir.
C27_HoldingDirLeftBehind ==
    /\ PivotSwapFailed => holdingDir /\ ~Attempted("remove") /\ ~Attempted("umount")
    /\ Attempted("remove") =>
          /\ CallOk("pivot_root")
          /\ \E i \in Idx : PrimaryChdirOkAt(i)

\* witness: the target command runs under chroot beside the holding directory
C27_Witness ==
    PivotSwapFailed /\ chrooted /\ tstate = "running" /\ holdingDir

-----------------------------------------------------------------------------
(* C28 *)

\* child() as a function of its arguments a and of the results oks of its
\* successive calls, whoever started it: the call made at step l, the step
\* that follows it, and what is printed between the two
childOp(l) ==
    CASE l = "validate" -> "stat"     [] l = "abs" -> "getwd"
      [] l = "mkdir" -> "mkdir"       [] l = "pivot" -> "pivot_root"
      [] l = "pchdir" -> "chdir"      [] l = "unmount" -> "umount"
      [] l = "remove" -> "remove"     [] l = "chroot" -> "chroot"
      [] l = "cchdir" -> "chdir"      [] l = "mount" -> "mount"
      [] l = "start" -> "exec"

childPath(a, l) ==
    CASE l \in {"validate", "chroot"} -> a[1]
      [] l = "abs" -> <<>>
      [] l = "mkdir" -> Join(Abs(a[1]), oldRootDir)
      [] l = "pivot" -> Abs(a[1])
      [] l \in {"pchdir", "cchdir"} -> Slash
      [] l \in {"unmount", "remove"} -> Slash \o oldRootDir
      [] l = "mount" -> procFS
      [] l = "start" -> getCmdPath(a[2])

childNext(a, l, ok) ==
    CASE l = "validate" -> IF ~ok THEN "end" ELSE IF IsAbs(a[1]) THEN "mkdir" ELSE "abs"
      [] l = "abs" -> IF ok THEN "mkdir" ELSE "chroot"
      [] l = "mkdir" -> IF ok THEN "pivot" ELSE "chroot"
      [] l = "pivot" -> IF ok THEN "pchdir" ELSE "chroot"
      [] l = "pchdir" -> IF ok THEN "unmount" ELSE "chroot"
      [] l = "unmount" -> "remove"
      [] l = "remove" -> "mount"
      [] l = "chroot" -> IF ok THEN "cchdir" ELSE "end"
      [] l = "cchdir" -> IF ok THEN "mount" ELSE "end"
      [] l = "mount" -> IF ok THEN "start" ELSE "end"
      [] l = "start" -> IF ok THEN "run" ELSE "end"

childMsgs(a, l, ok) ==
    CASE l = "validate" -> IF ok THEN <<Msg(getCmdPathMsg(a[2]), nil)>>
                                 ELSE <<Msg("error", "rootfs path does not exist")>>
      [] l = "abs" -> IF ok THEN <<>> ELSE <<FallbackWarning("cannot get absolute path")>>
      [] l = "mkdir" -> IF ok THEN <<>>
                              ELSE <<FallbackWarning("cannot create old_root directory")>>
      [] l = "pivot" -> IF ok THEN <<>> ELSE <<FallbackWarning("pivot_root failed")>>
      [] l = "pchdir" -> IF ok THEN <<>>
                               ELSE <<FallbackWarning("chdir to / failed after pivot_root")>>
      [] l = "unmount" -> IF ok THEN <<>>
                                ELSE <<Msg("Warning: unmounting old root failed", "umount")>>
      [] l = "remove" ->
            (IF ok THEN <<>>
                   ELSE <<Msg("Warning: removing old root directory failed", "remove")>>)
            \o <<Msg("Successfully using pivot_root", nil)>>
      [] l = "chroot" -> IF ok THEN <<>> ELSE <<Msg("error", "chroot failed")>>
      [] l = "cchdir" -> IF ok THEN <<Msg("Using chroot for filesystem isolation", nil)>>
                               ELSE <<Msg("error", "chdir to / failed after chroot")>>
      [] l = "mount" -> IF ok THEN <<>> ELSE <<Msg("error", "mount failed")>>
      [] l = "start" -> IF ok THEN <<>> ELSE <<Msg("error", "exec failed")>>

RECURSIVE childTrace(_, _, _)
childTrace(a, l, oks) ==
    IF l \in {"end", "run"} \/ oks = <<>>
    THEN [calls |-> <<>>, out |-> <<>>, at |-> l]
    ELSE LET ok == Head(oks)
             rest == childTrace(a, childNext(a, l, ok), Tail(oks))
         IN  [calls |-> <<Call(childOp(l), childPath(a, l), ok)>> \o rest.calls,
              out |-> childMsgs(a, l, ok) \o rest.out,
              at |-> rest.at]

\* the calls made by Init (clone is the Launcher's), their results, and
\* what Init has printed (the Launcher prints one error after a failed Init)
InitCalls == SelectSeq(calls, LAMBDA c : c.op # "clone")
InitOks == [i \in 1..Len(InitCalls) |-> InitCalls[i].ok]
InitOut(p) ==
    IF p = 1 /\ pc[0] = "exited" /\ exitc[0] # 0 THEN SubSeq(out, 1, Len(out) - 1) ELSE out

\* C28: an Init that is past its argument check was either given fewer
\* than two arguments, and then it was invoked directly, has printed the
\* usage and nothing else, has exited with a non-zero code and has made no
\* call (no validation, no resolution, no isolation, no mount); or it was
\* given two or more, and then its calls, its output and its exit code are
\* those child() produces from the arguments and the call results alone,
\* the same for a directly invoked Init and a spawned one, which differ in
\* the namespaces only.
C28_DirectInit ==
    \A p \in Procs :
        (IsInit(p) /\ pc[p] \notin {"main", "child"}) =>
            IF Len(args(p)) < 2
            THEN /\ p = 0
                 /\ pc[p] = "exited" /\ exitc[p] # 0
                 /\ out = <<Usage>> /\ calls = <<>>
                 /\ binPath = <<>> /\ strategyUsed = "none"
                 /\ ~holdingDir /\ ~rootSwapped /\ ~chrooted /\ ~procMounted
                 /\ tstate = "none"
            ELSE LET t == childTrace(args(p), "validate", InitOks)
                 IN  /\ InitCalls = t.calls
                     /\ namespaces = IF p = 0 THEN {} ELSE Cloneflags
                     /\ binPath # <<>> => binPath = getCmdPath(args(p)[2])
                     /\ pc[p] = "exited" =>
                           /\ t.at \in {"end", "run"}
                           /\ exitc[p] = IF t.at = "end" \/ texit # 0
                                         THEN ExitFailure ELSE ExitSuccess
                           /\ InitOut(p) =
                                 t.out \o (IF t.at = "run" /\ texit # 0
                                           THEN <<Msg("error", "exit status")>> ELSE <<>>)

\* witness: `child` with a single argument was refused
C28_Witness ==
    /\ IsInit(0) /\ Len(args(0)) = 1
    /\ pc[0] = "exited" /\ Printed(Usage)

-----------------------------------------------------------------------------
(* C29 *)

\* position of a step in the sequence of main, run and child
Rank(l) ==
    CASE l = "idle" -> 0      [] l = "main" -> 1      [] l = "run" -> 2
      [] l = "spawn" -> 3     [] l = "wait" -> 4      [] l = "child" -> 5
      [] l = "validate" -> 6  [] l = "resolve" -> 7   [] l = "abs" -> 8
      [] l = "mkdir" -> 9     [] l = "pivot" -> 10    [] l = "pchdir" -> 11
      [] l = "unmount" -> 12  [] l = "remove" -> 13   [] l = "fallback" -> 14
      [] l = "chroot" -> 15   [] l = "cchdir" -> 16   [] l = "mount" -> 17
      [] l = "start" -> 18    [] l = "waitcmd" -> 19
      [] l \in Terminated -> 20

\* the Launcher and Init (if there is one) have ended
C29_Done ==
    /\ pc[0] \in Terminated
    /\ pc[1] \in {"idle"} \cup Terminated
    /\ tstate # "running"

\* every step moves a process forward or ends the target command; no
\* process ever goes back to an earlier step or repeats one
C29_Progress ==
    /\ \A p \in Procs : pc'[p] # pc[p] => Rank(pc'[p]) > Rank(pc[p])
    /\ pc' # pc \/ (tstate = "running" /\ tstate' = "exited")

\* no call is made twice (chdir once by each strategy)
C29_AtMostOnce ==
    /\ \A op \in {"clone", "stat", "getwd", "mkdir", "pivot_root", "umount",
                  "remove", "chroot", "mount", "exec"} : Count(op) <= 1
    /\ \A i, j \in Idx :
          (i < j /\ calls[i].op = "chdir" /\ calls[j].op = "chdir") =>
              PrimaryCallAt(i) /\ LegacyChdirAt(j)

\* a failed call that is neither a Primary step nor a cleanup step is the
\* last call, and the process that made it has exited with a non-zero code
C29_FatalIsLast ==
    \A i \in Idx :
        (/\ ~calls[i].ok
         /\ ~PrimaryFailedAt(i)
         /\ calls[i].op \notin {"umount", "remove"}) =>
            /\ i = Len(calls)
            /\ \A p \in Procs :
                  (IF calls[i].op = "clone" THEN IsLauncher(p) ELSE IsInit(p)) =>
                      pc[p] = "exited" /\ exitc[p] # 0

\* C29: if every step that can be taken is taken, the Launcher and Init
\* end; every step moves forward in the sequence (no loop, no retry), no
\* call is made twice, and a failure other than a Primary failure or a
\* cleanup failure is the last call of a process that has exited.
C29_Terminates ==
    /\ <>C29_Done
    /\ [][C29_Progress]_vars
    /\ [](C29_AtMostOnce /\ C29_FatalIsLast)

\* witness: Launcher and Init have ended after a Primary failure, a
\* cleanup-free fallback and a complete run of the target command
C29_Witness ==
    /\ IsLauncher(0) /\ pc[0] = "exited" /\ pc[1] = "exited"
    /\ \E i \in Idx : PrimaryFailedAt(i)
    /\ tstate = "exited"

====
